---- MODULE Spec2Model ----
(***************************************************************************)
(* ibstore: the parallel minimization pipeline (ibstore/_minimize.py) and  *)
(* the molecule store (ibstore/_store.py).                                 *)
(*                                                                         *)
(* MinimizeSpec is _minimize_blob with its worker pool; PoolSpec is the    *)
(* same on batches that outnumber the pool; WorkerSpec is one process that *)
(* imports the module and calls _run_openmm; Spec is the MoleculeStore     *)
(* with its transaction scope.                                             *)
(***************************************************************************)
EXTENDS Integers, Sequences, FiniteSets, TLC

VARIABLES
    \* ---- _minimize_blob ----
    input,        \* the grouped input: a sequence of [inchi_key, rows] (a dict, in insertion order)
    force_field,  \* the force-field identifier of the batch
    localFiles,   \* environment: the identifiers that are existing filesystem paths
    pluginPaths,  \* environment: the names the plugin registry contributes
    mpc,          \* "start" | "pool" | "returned" | "raised"
    inputs,       \* the flattened list of MinimizationInput
    dispatched,   \* number of tasks the pool's workers have taken, in submission order
    running,      \* submission indices being run by a worker
    results,      \* submission index -> the outcome its worker sent back
    yielded,      \* submission indices the imap iterator has handed to the loop
    returned,     \* the local defaultdict(list): inchi_key -> list of MinimizationResult
    error,        \* the exception _minimize_blob raised to its caller, or "none"
    outOfOrder,   \* history: some task completed while an earlier one was still unfinished
    \* ---- MoleculeStore ----
    path,         \* database_path: the name of the file, split at its dots
    file,         \* the file at database_path: the committed database, a blank file, or absent
    obj,          \* the MoleculeStore instance: "none" | "ready" | "failed"
    engine,       \* whether create_engine has run for the instance
    session,      \* the session of the call in progress: "never" | "open" | "closed"
    txn,          \* what the open session sees: the database with its pending changes
    pc,           \* "idle" | "body" | "commit" | "except" | "finally" | "done"
    call,         \* the call in progress, or the last one: [op, arg]
    todo,         \* store: the records the loop has not reached yet
    pre,          \* history: the file when the call started
    commitCalls,  \* calls of session.commit() in this call's transaction scope
    rollbacks,    \* calls of session.rollback() in this call's transaction scope
    exc,          \* the exception in flight
    raised,       \* the exception the last call raised to its caller
    provenance,   \* self.general_provenance, self.software_provenance
    \* ---- a process that runs _run_openmm ----
    module,       \* ibstore._minimize in the process: "unimported" | "imported"
    loaded,       \* the process's FORCE_FIELDS: identifier -> the definition loaded for it
    parses,       \* history: identifier -> the number of times ForceField(...) parsed it here
    calls         \* history: the calls of _run_openmm made in the process, with their outcomes

minVars == <<input, force_field, localFiles, pluginPaths, mpc, inputs, dispatched,
             running, results, yielded, returned, error, outOfOrder>>

storeVars == <<path, file, obj, engine, session, txn, pc, call, todo, pre, commitCalls,
               rollbacks, exc, raised, provenance>>

workerVars == <<module, loaded, parses, calls>>

vars == <<minVars, storeVars, workerVars>>

(***************************************************************************)
(* Bounds                                                                  *)
(***************************************************************************)
\* rows of one grouped input
MaxRows == 3

\* conformer rows the store is filled up to
MaxStored == 3

\* records of one call of store
MaxBatch == 2

\* calls of _run_openmm in one process
MaxCalls == 3

(***************************************************************************)
(* Molecules: canonicalisation and isomorphism (the external toolkit)      *)
(***************************************************************************)
InchiKeys == {"KA", "KB"}

\* mapped SMILES the toolkit parses, each with the InChI key of its graph
ParsableSmiles == {"A1", "A2", "B1"}

\* Molecule.from_smiles(smiles).to_inchikey(fixed_hydrogens=True)
smiles_to_inchi_key(smiles) ==
    CASE smiles = "A1" -> "KA"
      [] smiles = "A2" -> "KA"
      [] smiles = "B1" -> "KB"

\* one mapped SMILES of the graph an InChI key stands for
CanonicalSmiles(key) == IF key = "KA" THEN "A1" ELSE "B1"

(***************************************************************************)
(* _minimize.py                                                            *)
(***************************************************************************)
N_PROCESSES == 10

\* the module-level dict: identifier -> the bundled file it was loaded from
FORCE_FIELDS ==
    [ff \in {"openff-1.0.0", "openff-1.3.0", "openff-2.0.0", "openff-2.1.0"} |->
        CASE ff = "openff-1.0.0" -> "openff_unconstrained-1.0.0.offxml"
          [] ff = "openff-1.3.0" -> "openff_unconstrained-1.3.0.offxml"
          [] ff = "openff-2.0.0" -> "openff_unconstrained-2.0.0.offxml"
          [] ff = "openff-2.1.0" -> "openff_unconstrained-2.1.0.offxml"]

PluginName == "de-force-1.0.1"
LocalPath  == "/tmp/fOOOO.offxml"

\* the identifiers a batch is run with
ForceFieldIds == {"openff-1.0.0", "openff-2.1.0", PluginName, LocalPath}

\* the minimizer: energy and coordinates are a function of the force field
\* definition and the starting coordinates
FFIndex(offxml) ==
    CASE offxml = "openff_unconstrained-1.0.0.offxml" -> 1
      [] offxml = "openff_unconstrained-1.3.0.offxml" -> 2
      [] offxml = "openff_unconstrained-2.0.0.offxml" -> 3
      [] offxml = "openff_unconstrained-2.1.0.offxml" -> 4

\* a minimizer that starts from what the calls before it left behind
EnergyAfterEarlierCalls(offxml, positions) == 10 * positions + FFIndex(offxml) + Len(calls)

MinimizedEnergy(offxml, positions) == 10 * positions + FFIndex(offxml)

MinimizedCoordinates(offxml, positions) == 100 * FFIndex(offxml) + positions

MinimizationInput(key, row, ff) ==
    [inchi_key     |-> key,
     qcarchive_id  |-> row.qcarchive_id,
     force_field   |-> ff,
     mapped_smiles |-> row.mapped_smiles,
     coordinates   |-> row.coordinates]

Failure(name) == [ok |-> FALSE, exc |-> name]

\* the lookup of the force field definition: the dict, and nothing else
KeyErrorOnUnknown(ff) ==
    IF ff \in DOMAIN loaded
    THEN [ok |-> TRUE, source |-> "mainline", file |-> loaded[ff]]
    ELSE Failure("KeyError")

ResolveForceField(ff) == KeyErrorOnUnknown(ff)

\* what a worker sends back for one input: a MinimizationResult, or the exception
\* that ended the call
_run_openmm(inp) ==
    IF inp.mapped_smiles \notin ParsableSmiles
    THEN Failure("MalformedStructure")
    ELSE IF smiles_to_inchi_key(inp.mapped_smiles) # inp.inchi_key
    THEN Failure("AssertionError")
    ELSE LET ff == ResolveForceField(inp.force_field) IN
         IF ~ff.ok
         THEN ff
         ELSE [ok |-> TRUE,
               source |-> ff.source,
               result |->
                 [inchi_key     |-> inp.inchi_key,
                  qcarchive_id  |-> inp.qcarchive_id,
                  force_field   |-> inp.force_field,
                  mapped_smiles |-> inp.mapped_smiles,
                  coordinates   |-> MinimizedCoordinates(ff.file, inp.coordinates),
                  energy        |-> MinimizedEnergy(ff.file, inp.coordinates)]]

\* for inchi_key in input: for row in input[inchi_key]: inputs.append(...)
RECURSIVE FlattenGroups(_, _)
FlattenGroups(groups, ff) ==
    IF groups = <<>>
    THEN <<>>
    ELSE LET g == Head(groups) IN
         [i \in 1..Len(g.rows) |-> MinimizationInput(g.inchi_key, g.rows[i], ff)]
            \o FlattenGroups(Tail(groups), ff)

\* an iterator that hands out outcomes as they arrive
ImapUnordered == DOMAIN results \ yielded

\* the indices Pool.imap can hand to the loop next: the first one not handed out
\* yet, once its outcome has arrived
ImapReady ==
    {i \in DOMAIN results :
        /\ i \notin yielded
        /\ \A j \in 1..(i - 1) : j \in yielded}

\* returned[result.inchi_key] = [result]
ReplaceResult(ret, res) ==
    IF res.inchi_key \in DOMAIN ret
    THEN [ret EXCEPT ![res.inchi_key] = <<res>>]
    ELSE ret @@ (res.inchi_key :> <<res>>)

\* returned[result.inchi_key].append(result)
AppendResult(ret, res) ==
    IF res.inchi_key \in DOMAIN ret
    THEN [ret EXCEPT ![res.inchi_key] = Append(@, res)]
    ELSE ret @@ (res.inchi_key :> <<res>>)

\* the loop over the keys and rows, and the pool's creation
Flatten ==
    /\ mpc = "start"
    /\ inputs' = FlattenGroups(input, force_field)
    /\ mpc' = "pool"
    /\ UNCHANGED <<input, force_field, localFiles, pluginPaths, dispatched, running,
                   results, yielded, returned, error, outOfOrder, storeVars, workerVars>>

\* an idle worker takes the next task off the queue
Dispatch ==
    /\ mpc = "pool"
    /\ dispatched < Len(inputs)
    /\ Cardinality(running) < N_PROCESSES
    /\ dispatched' = dispatched + 1
    /\ running' = running \cup {dispatched + 1}
    /\ UNCHANGED <<input, force_field, localFiles, pluginPaths, mpc, inputs,
                   results, yielded, returned, error, outOfOrder, storeVars, workerVars>>

\* a worker finishes its task and sends the outcome back; it stays in the pool
Complete(i) ==
    /\ mpc = "pool"
    /\ i \in running
    /\ running' = running \ {i}
    /\ results' = results @@ (i :> _run_openmm(inputs[i]))
    /\ outOfOrder' = (outOfOrder \/ \E j \in 1..(i - 1) : j \notin DOMAIN results)
    /\ UNCHANGED <<input, force_field, localFiles, pluginPaths, mpc, inputs,
                   dispatched, yielded, returned, error, storeVars, workerVars>>

\* a loop that drops the item whose worker raised
ConsumeSkippingFailures(i) ==
    /\ mpc = "pool"
    /\ i \in ImapReady
    /\ yielded' = yielded \cup {i}
    /\ returned' = IF results[i].ok THEN AppendResult(returned, results[i].result) ELSE returned
    /\ UNCHANGED <<mpc, error, running, input, force_field, localFiles, pluginPaths,
                   inputs, dispatched, results, outOfOrder, storeVars, workerVars>>

\* one turn of the for loop: the iterator hands over an outcome; a result is
\* appended to its key's list, an exception is raised out of the function (the
\* pool's context manager terminates the workers)
Consume(i) ==
    /\ mpc = "pool"
    /\ i \in ImapReady
    /\ yielded' = yielded \cup {i}
    /\ IF results[i].ok
       THEN /\ returned' = AppendResult(returned, results[i].result)
            /\ UNCHANGED <<mpc, error, running>>
       ELSE /\ mpc' = "raised"
            /\ error' = results[i].exc
            /\ running' = {}
            /\ returned' = <<>>
    /\ UNCHANGED <<input, force_field, localFiles, pluginPaths, inputs, dispatched,
                   results, outOfOrder, storeVars, workerVars>>

\* the iterator is exhausted: return returned
Return ==
    /\ mpc = "pool"
    /\ yielded = 1..Len(inputs)
    /\ mpc' = "returned"
    /\ UNCHANGED <<input, force_field, localFiles, pluginPaths, inputs, dispatched,
                   running, results, yielded, returned, error, outOfOrder, storeVars, workerVars>>

(***************************************************************************)
(* A process that imports ibstore._minimize and calls _run_openmm          *)
(***************************************************************************)
\* the identifiers whose parses are counted
ParsedIds == DOMAIN FORCE_FIELDS \cup ForceFieldIds

NothingLoaded == [id \in {} |-> ""]

\* import ibstore._minimize: the module-level dict is built, one ForceField(...)
\* for each of its names
Import ==
    /\ module = "unimported"
    /\ module' = "imported"
    /\ loaded' = FORCE_FIELDS
    /\ parses' = [id \in ParsedIds |->
                    IF id \in DOMAIN FORCE_FIELDS THEN parses[id] + 1 ELSE parses[id]]
    /\ UNCHANGED <<calls, minVars, storeVars>>

\* the inputs the process calls _run_openmm with
WorkerInputs ==
    [inchi_key     : {"KA"},
     qcarchive_id  : {1, 2},
     force_field   : {"openff-1.0.0", "openff-2.1.0", PluginName},
     mapped_smiles : {"A1", "B1"},
     coordinates   : {1, 2}]

\* a worker that builds the force field anew for every call
RunOpenMMReparsing(inp) ==
    /\ module = "imported"
    /\ Len(calls) < MaxCalls
    /\ parses' = [parses EXCEPT ![inp.force_field] = @ + 1]
    /\ UNCHANGED <<module, loaded>>
    /\ calls' = Append(calls, [input |-> inp, outcome |-> _run_openmm(inp),
                               before |-> loaded, after |-> loaded'])
    /\ UNCHANGED <<minVars, storeVars>>

\* _run_openmm(input) in the process: the module's dict is read, nothing is written
RunOpenMM(inp) ==
    /\ module = "imported"
    /\ Len(calls) < MaxCalls
    /\ UNCHANGED <<module, loaded, parses>>
    /\ calls' = Append(calls, [input |-> inp, outcome |-> _run_openmm(inp),
                               before |-> loaded, after |-> loaded'])
    /\ UNCHANGED <<minVars, storeVars>>

(***************************************************************************)
(* The store: paths, the database file, records                            *)
(***************************************************************************)
\* the default of database_path
DefaultPath == <<"molecule-store", "sqlite">>

\* file names, split at their dots: molecule-store.sqlite, foo.SQLITE, foo.db,
\* foo, .sqlite, foo.sqlite.bak
Paths ==
    {DefaultPath, <<"foo", "SQLITE">>, <<"foo", "db">>, <<"foo">>, <<"", "sqlite">>,
     <<"foo", "sqlite", "bak">>}

\* pathlib's suffix: what follows the last dot of the name, unless that dot starts
\* or ends the name ("" stands for no suffix; the dot itself is left out)
Suffix(parts) ==
    LET n == Len(parts) IN
    IF n >= 2 /\ parts[n] # "" /\ ~(n = 2 /\ parts[1] = "") THEN parts[n] ELSE ""

\* str.lower
Lower(str) == IF str = "SQLITE" THEN "sqlite" ELSE str

\* not database_path.suffix.lower() == ".sqlite"
SuffixRejected(parts) == ~(Lower(Suffix(parts)) = "sqlite")

Absent ==
    [exists |-> FALSE, schema |-> FALSE, molecules |-> <<>>, qm |-> <<>>, mm |-> <<>>,
     general |-> "unset", software |-> "unset"]

\* a file of no bytes
Blank == [Absent EXCEPT !.exists = TRUE]

\* DBBase.metadata.create_all(engine): connects, which creates the file, and
\* creates the tables that are not there
create_all(f) == [f EXCEPT !.exists = TRUE, !.schema = TRUE]

NoException == [at |-> "none", name |-> "none"]

Raise(at, name) == [at |-> at, name |-> name]

\* the conformers of the data set: source id -> the mapped SMILES of its entry
QCArchiveIds == {1, 2, 3}

SmilesOf(id) == CASE id = 1 -> "A1" [] id = 2 -> "A2" [] id = 3 -> "B1"

StoreForceFields == {"openff-1.0.0", "openff-2.1.0"}

\* the number of atoms of a mapped SMILES
AtomCount(smiles) ==
    CASE smiles \in {"A1", "A2"} -> 2
      [] smiles = "B1"          -> 3
      [] OTHER                  -> 0

\* ConformerRecord._validate_coordinates on an array of size elements:
\* v.reshape((-1, 3)), ValueError when the array cannot be reshaped
_validate_coordinates(size) ==
    IF size % 3 = 0
    THEN [ok |-> TRUE, shape |-> <<size \div 3, 3>>]
    ELSE Failure("ValueError")

\* the record of a QM conformer whose coordinate array has size elements
QMRecordWith(id, size) ==
    [kind |-> "qm", qcarchive_id |-> id, mapped_smiles |-> SmilesOf(id),
     force_field |-> "none", coordinates |-> id, energy |-> 1000 + id,
     shape |-> _validate_coordinates(size).shape]

QMRecord(id) == QMRecordWith(id, 3 * AtomCount(SmilesOf(id)))

\* the minimized conformer of a QM conformer under a force field
MMRecord(id, ff) ==
    [kind |-> "mm", qcarchive_id |-> id, mapped_smiles |-> SmilesOf(id),
     force_field |-> ff,
     coordinates |-> MinimizedCoordinates(FORCE_FIELDS[ff], id),
     energy |-> MinimizedEnergy(FORCE_FIELDS[ff], id),
     shape |-> _validate_coordinates(3 * AtomCount(SmilesOf(id))).shape]

\* a record whose mapped SMILES the toolkit cannot parse
MalformedRecord == [QMRecord(1) EXCEPT !.mapped_smiles = "bad"]

\* the sizes of the arrays a record of the first conformer is built from: that of
\* its molecule, one element more, one atom more
ArraySizes == {3 * AtomCount(SmilesOf(1)) + extra : extra \in {0, 1, 3}}

\* the records of the first conformer that validation lets through
ValidatedRecords ==
    {QMRecordWith(1, size) : size \in {n \in ArraySizes : _validate_coordinates(n).ok}}

StoreRecords ==
    {QMRecord(id) : id \in QCArchiveIds}
        \cup {MMRecord(id, ff) : id \in QCArchiveIds, ff \in StoreForceFields}
        \cup {MalformedRecord}
        \cup ValidatedRecords

(***************************************************************************)
(* DBSessionManager and the schema                                         *)
(***************************************************************************)
\* the id of the molecule row with this InChI key, 0 when there is none
MoleculeIdOf(t, key) ==
    IF \E m \in 1..Len(t.molecules) : t.molecules[m].inchi_key = key
    THEN CHOOSE m \in 1..Len(t.molecules) : t.molecules[m].inchi_key = key
    ELSE 0

\* the molecule row of the record's InChI key is reused or, for a key not seen
\* yet, created; the conformer row is added to its table
_store_single_molecule_record(t, record) ==
    LET key    == smiles_to_inchi_key(record.mapped_smiles)
        known  == MoleculeIdOf(t, key)
        mols   == IF known = 0
                  THEN Append(t.molecules,
                              [inchi_key |-> key, mapped_smiles |-> record.mapped_smiles])
                  ELSE t.molecules
        parent == IF known = 0 THEN Len(mols) ELSE known
        row    == [parent_id |-> parent, qcarchive_id |-> record.qcarchive_id,
                   force_field |-> record.force_field,
                   coordinates |-> record.coordinates, energy |-> record.energy,
                   shape |-> record.shape]
    IN  IF record.kind = "qm"
        THEN [t EXCEPT !.molecules = mols, !.qm = Append(@, row)]
        ELSE [t EXCEPT !.molecules = mols, !.mm = Append(@, row)]

\* the exception storing a record raises, "none" when it is stored
StoreRaises(record) ==
    IF record.mapped_smiles \notin ParsableSmiles THEN "MalformedStructureError" ELSE "none"

\* tables without UNIQUE constraints
NoConstraints(t) == TRUE

\* the UNIQUE constraints of the tables: molecule(structural key),
\* qm_conformer(source id), mm_conformer(source id, force field)
UniqueConstraints(t) ==
    /\ \A i, j \in 1..Len(t.molecules) :
          t.molecules[i].inchi_key = t.molecules[j].inchi_key => i = j
    /\ \A i, j \in 1..Len(t.qm) : t.qm[i].qcarchive_id = t.qm[j].qcarchive_id => i = j
    /\ \A i, j \in 1..Len(t.mm) :
          (/\ t.mm[i].qcarchive_id = t.mm[j].qcarchive_id
           /\ t.mm[i].force_field = t.mm[j].force_field) => i = j

\* db.set_provenance: the two maps replace the stored ones
db_set_provenance(t, general, software) == [t EXCEPT !.general = general, !.software = software]

\* the exception db.set_provenance raises, "none" when the maps are stored
ProvenanceRaises(general, software) ==
    IF general = "bad" \/ software = "bad" THEN "TypeError" ELSE "none"

ProvenanceArgs == {<<"g1", "s1">>, <<"bad", "s1">>}

(***************************************************************************)
(* The queries                                                             *)
(***************************************************************************)
RECURSIVE Distinct(_)
Distinct(seq) ==
    IF seq = <<>>
    THEN <<>>
    ELSE LET front == Distinct(SubSeq(seq, 1, Len(seq) - 1))
             last  == seq[Len(seq)]
         IN  IF \E i \in 1..Len(front) : front[i] = last THEN front ELSE Append(front, last)

\* a count of the conformer rows
LenCountsConformers(f) == Len(f.qm) + Len(f.mm)

\* query(DBMoleculeRecord.mapped_smiles).count()
__len__(f) == Len(f.molecules)

\* query(DBMoleculeRecord.mapped_smiles).distinct()
get_smiles(f) == Distinct([i \in 1..Len(f.molecules) |-> f.molecules[i].mapped_smiles])

get_molecule_ids(f) == 1..Len(f.molecules)

QMRowsOf(f, m) == SelectSeq(f.qm, LAMBDA r : r.parent_id = m)

MMRowsOf(f, m, ff) == SelectSeq(f.mm, LAMBDA r : r.parent_id = m /\ r.force_field = ff)

Conformer(row) == [coordinates |-> row.coordinates, energy |-> row.energy]

NoConformer == [coordinates |-> -1, energy |-> -1]

get_qcarchive_ids_by_molecule_id(f, m) ==
    [i \in 1..Len(QMRowsOf(f, m)) |-> QMRowsOf(f, m)[i].qcarchive_id]

get_qm_conformers_by_molecule_id(f, m) ==
    [i \in 1..Len(QMRowsOf(f, m)) |-> Conformer(QMRowsOf(f, m)[i])]

get_mm_conformers_by_molecule_id(f, m, ff) ==
    [i \in 1..Len(MMRowsOf(f, m, ff)) |-> Conformer(MMRowsOf(f, m, ff)[i])]

get_qm_conformer_by_qcarchive_id(f, id) ==
    LET rows == SelectSeq(f.qm, LAMBDA r : r.qcarchive_id = id) IN
    IF rows = <<>> THEN NoConformer ELSE Conformer(rows[1])

\* the lookup by source id alone
GetMMIgnoringForceField(f, id, ff) ==
    LET rows == SelectSeq(f.mm, LAMBDA r : r.qcarchive_id = id) IN
    IF rows = <<>> THEN NoConformer ELSE Conformer(rows[1])

get_mm_conformer_by_qcarchive_id(f, id, ff) ==
    LET rows == SelectSeq(f.mm, LAMBDA r : r.qcarchive_id = id /\ r.force_field = ff) IN
    IF rows = <<>> THEN NoConformer ELSE Conformer(rows[1])

\* the source ids of a molecule's MM conformers under a force field, as stored
MMSourceIds(f, m, ff) ==
    [i \in 1..Len(MMRowsOf(f, m, ff)) |-> MMRowsOf(f, m, ff)[i].qcarchive_id]

(***************************************************************************)
(* MoleculeStore                                                           *)
(***************************************************************************)
NoCall == [op |-> "none", step |-> "none", arg |-> <<>>]

\* records = [records] for a single MoleculeRecord
Normalised(arg) == arg.items

StoreArgs(n) ==
    {[tag |-> "record", items |-> <<r>>] : r \in {x \in StoreRecords : n >= 1}}
        \cup {[tag |-> "tuple", items |-> b] :
                 b \in UNION {[1..k -> StoreRecords] : k \in 0..(IF n < MaxBatch THEN n ELSE MaxBatch)}}

\* the entries of a QM result collection: source ids, none twice, in any order
Collections ==
    UNION {{c \in [1..k -> QCArchiveIds] : \A i, j \in 1..k : c[i] = c[j] => i = j}
           : k \in 0..Cardinality(QCArchiveIds)}

RECURSIVE SortedBySourceId(_)
SortedBySourceId(ids) ==
    IF ids = <<>>
    THEN <<>>
    ELSE LET least == CHOOSE i \in 1..Len(ids) : \A j \in 1..Len(ids) : ids[i] <= ids[j]
         IN  <<ids[least]>>
                \o SortedBySourceId(SubSeq(ids, 1, least - 1) \o SubSeq(ids, least + 1, Len(ids)))

\* one record per entry, in the order of the collection
InInputOrder(collection) == [i \in 1..Len(collection) |-> QMRecord(collection[i])]

\* the records create-new ingestion stores: one per entry, by source id
IngestRecords(collection) ==
    LET sorted == SortedBySourceId(collection) IN
    [i \in 1..Len(sorted) |-> QMRecord(sorted[i])]

\* the scope of _get_session is entered: session = self._sessionmaker()
EnterScope(f) ==
    /\ session' = "open"
    /\ txn' = f
    /\ commitCalls' = 0
    /\ rollbacks' = 0
    /\ exc' = NoException

\* a call ends before any session is made
EndWithoutScope(name) ==
    /\ raised' = Raise("call", name)
    /\ pc' = "done"
    /\ commitCalls' = 0
    /\ rollbacks' = 0
    /\ exc' = NoException
    /\ UNCHANGED <<file, engine, session, txn, todo, provenance>>

\* a constructor that makes the engine and the schema before it checks the suffix
ConstructChecksSuffixLate ==
    IF SuffixRejected(path)
    THEN /\ raised' = Raise("call", "NotImplementedError")
         /\ pc' = "done"
         /\ commitCalls' = 0
         /\ rollbacks' = 0
         /\ exc' = NoException
         /\ engine' = TRUE
         /\ file' = create_all(file)
         /\ obj' = "failed"
         /\ UNCHANGED <<session, txn, todo, provenance>>
    ELSE /\ engine' = TRUE
         /\ file' = create_all(file)
         /\ EnterScope(create_all(file))
         /\ pc' = "body"
         /\ raised' = NoException
         /\ UNCHANGED <<obj, todo, provenance>>

\* __init__ up to its with block: the suffix is checked first; then the engine,
\* the schema and the session are made
__init__ ==
    IF SuffixRejected(path)
    THEN /\ EndWithoutScope("NotImplementedError")
         /\ obj' = "failed"
    ELSE /\ engine' = TRUE
         /\ file' = create_all(file)
         /\ EnterScope(create_all(file))
         /\ pc' = "body"
         /\ raised' = NoException
         /\ UNCHANGED <<obj, todo, provenance>>

\* MoleculeStore(database_path)
Construct ==
    /\ pc = "idle"
    /\ obj # "ready"
    /\ call' = [op |-> "__init__", step |-> "__init__", arg |-> <<>>]
    /\ pre' = file
    /\ __init__
    /\ UNCHANGED <<path, minVars, workerVars>>

\* the with block of __init__: the version and the provenance are read
InitBody ==
    /\ pc = "body"
    /\ call.step = "__init__"
    /\ provenance' = <<txn.general, txn.software>>
    /\ pc' = "commit"
    /\ UNCHANGED <<path, file, obj, engine, session, txn, call, todo, pre, commitCalls,
                   rollbacks, exc, raised, minVars, workerVars>>

\* an ingestion that opens the destination whether or not it exists
IngestOverwrites(collection) ==
    /\ __init__
    /\ call' = [op |-> "from_qcsubmit_collection", step |-> "__init__", arg |-> collection]

\* MoleculeStore.from_qcsubmit_collection(collection, database_name): a
\* destination that exists is refused; otherwise the store is made and filled
from_qcsubmit_collection(collection) ==
    IF file.exists
    THEN /\ EndWithoutScope("DatabaseExistsError")
         /\ call' = [op |-> "from_qcsubmit_collection", step |-> "none", arg |-> collection]
         /\ UNCHANGED obj
    ELSE /\ __init__
         /\ call' = [op |-> "from_qcsubmit_collection", step |-> "__init__", arg |-> collection]

Ingest(collection) ==
    /\ pc = "idle"
    /\ pre' = file
    /\ from_qcsubmit_collection(collection)
    /\ UNCHANGED <<path, minVars, workerVars>>

\* store(records) up to its loop
StoreCall(arg) ==
    /\ pc = "idle"
    /\ obj = "ready"
    /\ call' = [op |-> "store", step |-> "store", arg |-> arg]
    /\ pre' = file
    /\ EnterScope(file)
    /\ todo' = Normalised(arg)
    /\ pc' = IF Normalised(arg) = <<>> THEN "commit" ELSE "body"
    /\ raised' = NoException
    /\ UNCHANGED <<path, file, obj, engine, provenance, minVars, workerVars>>

\* one turn of the loop of store, with the record committed as it is stored
StoreRecordAutocommit ==
    /\ pc = "body"
    /\ call.step = "store"
    /\ LET record == Head(todo) IN
       IF StoreRaises(record) # "none"
       THEN /\ exc' = Raise("body", StoreRaises(record))
            /\ pc' = "except"
            /\ UNCHANGED <<txn, todo, file>>
       ELSE /\ txn' = _store_single_molecule_record(txn, record)
            /\ file' = _store_single_molecule_record(txn, record)
            /\ todo' = Tail(todo)
            /\ pc' = IF Tail(todo) = <<>> THEN "commit" ELSE "body"
            /\ UNCHANGED exc
    /\ UNCHANGED <<path, obj, engine, session, call, pre, commitCalls, rollbacks,
                   raised, provenance, minVars, workerVars>>

\* one turn of the loop of store: db._store_single_molecule_record(record)
StoreRecord ==
    /\ pc = "body"
    /\ call.step = "store"
    /\ LET record == Head(todo) IN
       IF StoreRaises(record) # "none"
       THEN /\ exc' = Raise("body", StoreRaises(record))
            /\ pc' = "except"
            /\ UNCHANGED <<txn, todo>>
       ELSE /\ txn' = _store_single_molecule_record(txn, record)
            /\ todo' = Tail(todo)
            /\ pc' = IF Tail(todo) = <<>> THEN "commit" ELSE "body"
            /\ UNCHANGED exc
    /\ UNCHANGED <<path, file, obj, engine, session, call, pre, commitCalls, rollbacks,
                   raised, provenance, minVars, workerVars>>

\* set_provenance(general_provenance, software_provenance) up to its with block
SetProvenanceCall(general, software) ==
    /\ pc = "idle"
    /\ obj = "ready"
    /\ call' = [op |-> "set_provenance", step |-> "set_provenance", arg |-> <<general, software>>]
    /\ pre' = file
    /\ EnterScope(file)
    /\ pc' = "body"
    /\ raised' = NoException
    /\ UNCHANGED <<path, file, obj, engine, todo, provenance, minVars, workerVars>>

\* the with block of set_provenance
SetProvenanceBody ==
    /\ pc = "body"
    /\ call.step = "set_provenance"
    /\ LET general == call.arg[1]
           software == call.arg[2]
       IN  IF ProvenanceRaises(general, software) # "none"
           THEN /\ exc' = Raise("body", ProvenanceRaises(general, software))
                /\ pc' = "except"
                /\ UNCHANGED <<txn, provenance>>
           ELSE /\ txn' = db_set_provenance(txn, general, software)
                /\ provenance' = <<general, software>>
                /\ pc' = "commit"
                /\ UNCHANGED exc
    /\ UNCHANGED <<path, file, obj, engine, session, call, todo, pre, commitCalls,
                   rollbacks, raised, minVars, workerVars>>

\* _get_session after the yield: session.commit() writes the pending changes
CommitSucceeds ==
    /\ pc = "commit"
    /\ UniqueConstraints(txn)
    /\ commitCalls' = commitCalls + 1
    /\ file' = txn
    /\ pc' = "finally"
    /\ UNCHANGED <<path, obj, engine, session, txn, call, todo, pre, rollbacks, exc,
                   raised, provenance, minVars, workerVars>>

\* session.commit() raises: its flush violates a constraint, or the database
\* cannot be written
CommitFails(name) ==
    /\ pc = "commit"
    /\ name = "IntegrityError" => ~UniqueConstraints(txn)
    /\ commitCalls' = commitCalls + 1
    /\ exc' = Raise("commit", name)
    /\ pc' = "except"
    /\ UNCHANGED <<path, file, obj, engine, session, txn, call, todo, pre, rollbacks,
                   raised, provenance, minVars, workerVars>>

\* except BaseException as e: the handler that neither rolls back nor re-raises
ExceptSwallows ==
    /\ pc = "except"
    /\ file' = txn
    /\ exc' = NoException
    /\ pc' = "finally"
    /\ UNCHANGED <<path, obj, engine, session, txn, call, todo, pre, commitCalls,
                   rollbacks, raised, provenance, minVars, workerVars>>

\* except BaseException as e: session.rollback(); raise e
Rollback ==
    /\ pc = "except"
    /\ txn' = file
    /\ rollbacks' = rollbacks + 1
    /\ pc' = "finally"
    /\ UNCHANGED <<path, file, obj, engine, session, call, todo, pre, commitCalls, exc,
                   raised, provenance, minVars, workerVars>>

\* finally: session.close(); the method returns or raises.  __init__ leaves an
\* instance unless it raised; create-new ingestion goes on to store its records.
Close ==
    /\ pc = "finally"
    /\ obj' = IF call.step = "__init__"
              THEN (IF exc = NoException THEN "ready" ELSE "failed")
              ELSE obj
    /\ IF call.op = "from_qcsubmit_collection" /\ call.step = "__init__" /\ exc = NoException
       THEN /\ call' = [call EXCEPT !.step = "store"]
            /\ EnterScope(file)
            /\ todo' = IngestRecords(call.arg)
            /\ pc' = IF IngestRecords(call.arg) = <<>> THEN "commit" ELSE "body"
            /\ UNCHANGED raised
       ELSE /\ session' = "closed"
            /\ raised' = exc
            /\ pc' = "done"
            /\ UNCHANGED <<call, txn, todo, commitCalls, rollbacks, exc>>
    /\ UNCHANGED <<path, file, engine, pre, provenance, minVars, workerVars>>

\* the caller has the outcome of the call; the next call can be made
Returned ==
    /\ pc = "done"
    /\ pc' = "idle"
    /\ call' = NoCall
    /\ txn' = Absent
    /\ todo' = <<>>
    /\ pre' = Absent
    /\ commitCalls' = 0
    /\ rollbacks' = 0
    /\ exc' = NoException
    /\ raised' = NoException
    /\ UNCHANGED <<path, file, obj, engine, session, provenance, minVars, workerVars>>

StoredRows(f) == Len(f.qm) + Len(f.mm)

MinIdle ==
    /\ input = <<>>
    /\ force_field = "openff-1.0.0"
    /\ localFiles = {}
    /\ pluginPaths = {}
    /\ mpc = "start"
    /\ inputs = <<>>
    /\ dispatched = 0
    /\ running = {}
    /\ results = <<>>
    /\ yielded = {}
    /\ returned = <<>>
    /\ error = "none"
    /\ outOfOrder = FALSE

\* the process has imported the module and has made no call
WorkerIdle ==
    /\ module = "imported"
    /\ loaded = FORCE_FIELDS
    /\ parses = [id \in ParsedIds |-> IF id \in DOMAIN FORCE_FIELDS THEN 1 ELSE 0]
    /\ calls = <<>>

StoreIdle ==
    /\ obj = "none"
    /\ engine = FALSE
    /\ session = "never"
    /\ txn = Absent
    /\ pc = "idle"
    /\ call = NoCall
    /\ todo = <<>>
    /\ pre = Absent
    /\ commitCalls = 0
    /\ rollbacks = 0
    /\ exc = NoException
    /\ raised = NoException
    /\ provenance = <<"unset", "unset">>

Init ==
    /\ path \in Paths
    /\ file \in {Absent, Blank}
    /\ StoreIdle
    /\ MinIdle
    /\ WorkerIdle

Next ==
    \/ Construct
    \/ InitBody
    \/ pc = "idle" /\ \E c \in Collections : Ingest(c)
    \/ pc = "idle" /\ obj = "ready" /\ \E a \in StoreArgs(MaxStored - StoredRows(file)) : StoreCall(a)
    \/ StoreRecord
    \/ \E p \in ProvenanceArgs : SetProvenanceCall(p[1], p[2])
    \/ SetProvenanceBody
    \/ CommitSucceeds
    \/ \E name \in {"IntegrityError", "OperationalError"} : CommitFails(name)
    \/ Rollback
    \/ Close
    \/ Returned

Spec == Init /\ [][Next]_vars

(***************************************************************************)
(* The batches _minimize_blob is called with                               *)
(***************************************************************************)
\* the mapped SMILES a row may carry under a key: one of the key's own, one of
\* another molecule, or one the toolkit cannot parse
RowSmiles(key) == {CanonicalSmiles(key), "bad"} \cup {CanonicalSmiles(k) : k \in InchiKeys \ {key}}

\* key sequences in which each key's rows are contiguous (the rows of one dict entry)
Grouped(ks) ==
    \A i, j \in 1..Len(ks) : (i < j /\ ks[i] = ks[j]) => \A m \in i..j : ks[m] = ks[i]

FlatBatches ==
    UNION {{b \in [1..n -> [inchi_key : InchiKeys, mapped_smiles : ParsableSmiles \cup {"bad"}]] :
                /\ Grouped([i \in 1..n |-> b[i].inchi_key])
                /\ \A i \in 1..n : b[i].mapped_smiles \in RowSmiles(b[i].inchi_key)}
           : n \in 0..MaxRows}

\* the dict of a flat batch: row i has source id i and starting coordinates i
RECURSIVE GroupsOf(_, _)
GroupsOf(b, from) ==
    IF from > Len(b)
    THEN <<>>
    ELSE LET key  == b[from].inchi_key
             last == CHOOSE m \in from..Len(b) :
                        /\ \A i \in from..m : b[i].inchi_key = key
                        /\ (m = Len(b) \/ b[m + 1].inchi_key # key)
         IN  <<[inchi_key |-> key,
                rows |-> [i \in 1..(last - from + 1) |->
                            [qcarchive_id  |-> from + i - 1,
                             mapped_smiles |-> b[from + i - 1].mapped_smiles,
                             coordinates   |-> from + i - 1]]]>>
             \o GroupsOf(b, last + 1)

MinInit ==
    /\ input \in {GroupsOf(b, 1) : b \in FlatBatches}
    /\ force_field \in ForceFieldIds
    /\ localFiles \in SUBSET {LocalPath}
    /\ pluginPaths \in SUBSET {PluginName}
    /\ mpc = "start"
    /\ inputs = <<>>
    /\ dispatched = 0
    /\ running = {}
    /\ results = <<>>
    /\ yielded = {}
    /\ returned = <<>>
    /\ error = "none"
    /\ outOfOrder = FALSE
    /\ path = DefaultPath
    /\ file = Absent
    /\ StoreIdle
    /\ WorkerIdle

MinNext ==
    \/ Flatten
    \/ Dispatch
    \/ \E i \in DOMAIN inputs : Complete(i)
    \/ \E i \in DOMAIN inputs : Consume(i)
    \/ Return

MinimizeSpec == MinInit /\ [][MinNext]_vars

(***************************************************************************)
(* _minimize_blob on batches that outnumber the pool                       *)
(***************************************************************************)
\* one row more than the pool has processes
PoolRows == N_PROCESSES + 1

\* flat batches of PoolRows rows that all minimize: the first k rows under one
\* key, the others under the other
LargeBatches ==
    {[i \in 1..PoolRows |->
        [inchi_key     |-> IF i <= k THEN "KA" ELSE "KB",
         mapped_smiles |-> CanonicalSmiles(IF i <= k THEN "KA" ELSE "KB")]]
     : k \in {0, PoolRows \div 2, PoolRows}}

PoolInit ==
    /\ input \in {GroupsOf(b, 1) : b \in FlatBatches \cup LargeBatches}
    /\ force_field \in StoreForceFields
    /\ localFiles = {}
    /\ pluginPaths = {}
    /\ mpc = "start"
    /\ inputs = <<>>
    /\ dispatched = 0
    /\ running = {}
    /\ results = <<>>
    /\ yielded = {}
    /\ returned = <<>>
    /\ error = "none"
    /\ outOfOrder = FALSE
    /\ path = DefaultPath
    /\ file = Absent
    /\ StoreIdle
    /\ WorkerIdle

PoolSpec == PoolInit /\ [][MinNext]_vars

(***************************************************************************)
(* The worker process                                                      *)
(***************************************************************************)
WorkerInit ==
    /\ module = "unimported"
    /\ loaded = NothingLoaded
    /\ parses = [id \in ParsedIds |-> 0]
    /\ calls = <<>>
    /\ MinIdle
    /\ path = DefaultPath
    /\ file = Absent
    /\ StoreIdle

WorkerNext ==
    \/ Import
    \/ \E inp \in WorkerInputs : RunOpenMM(inp)

WorkerSpec == WorkerInit /\ [][WorkerNext]_vars

(***************************************************************************)
(* Properties of the store (checked under Spec)                            *)
(***************************************************************************)
\* the records the store step of a call loops over
CallRecords(c) == IF c.op = "store" THEN Normalised(c.arg) ELSE IngestRecords(c.arg)

\* the exception the body of a call's with block raises, "none" when it completes
BodyException(c) ==
    IF c.step = "store"
    THEN LET records == CallRecords(c)
             raising == {i \in 1..Len(records) : StoreRaises(records[i]) # "none"}
         IN  IF raising = {}
             THEN "none"
             ELSE StoreRaises(records[CHOOSE i \in raising : \A j \in raising : i <= j])
    ELSE ProvenanceRaises(c.arg[1], c.arg[2])

MutatingDone == pc = "done" /\ call.op \in {"store", "set_provenance"}

\* C1 as claimed: in the transaction scope of store and set_provenance, a body
\* that raises is rolled back, never committed, and its exception re-raised; a
\* body that completes is committed exactly once and never rolled back.
C1_CommitOrRollback ==
    MutatingDone =>
        IF BodyException(call) # "none"
        THEN /\ rollbacks = 1
             /\ commitCalls = 0
             /\ raised = Raise("body", BodyException(call))
        ELSE /\ commitCalls = 1
             /\ rollbacks = 0
             /\ raised = NoException

\* C1 (amended): a body that raises is rolled back once, never committed, and its
\* exception re-raised; after a body that completes, commit is called exactly
\* once, and the transaction is rolled back only when that commit itself raises,
\* whose exception is then re-raised.
C1_CommitOrRollbackUnlessCommitRaises ==
    MutatingDone =>
        IF BodyException(call) # "none"
        THEN /\ rollbacks = 1
             /\ commitCalls = 0
             /\ raised = Raise("body", BodyException(call))
        ELSE /\ commitCalls = 1
             /\ \/ rollbacks = 0 /\ raised = NoException
                \/ rollbacks = 1 /\ raised.at = "commit" /\ file = pre

\* set_provenance completed its body, the commit raised, and the scope rolled back
C1_Witness ==
    /\ MutatingDone
    /\ call.op = "set_provenance"
    /\ BodyException(call) = "none"
    /\ raised.at = "commit"
    /\ rollbacks = 1

\* a record is visible: its conformer row is in its table, under the molecule of
\* its InChI key
Visible(record, f) ==
    LET rows == IF record.kind = "qm" THEN f.qm ELSE f.mm IN
    \E i \in 1..Len(rows) :
        /\ rows[i].qcarchive_id = record.qcarchive_id
        /\ rows[i].force_field = record.force_field
        /\ rows[i].coordinates = record.coordinates
        /\ rows[i].shape = record.shape
        /\ rows[i].energy = record.energy
        /\ rows[i].parent_id \in 1..Len(f.molecules)
        /\ f.molecules[rows[i].parent_id].inchi_key = smiles_to_inchi_key(record.mapped_smiles)

StoreDone == pc = "done" /\ call.op = "store"

\* C2 as claimed: when storing a record of the batch raises, the store's contents
\* are those before the call; when no record raises, every record of the batch is
\* visible.
C2_BatchAtomic ==
    StoreDone =>
        IF BodyException(call) # "none"
        THEN file = pre
        ELSE \A i \in 1..Len(CallRecords(call)) : Visible(CallRecords(call)[i], file)

\* C2 (amended): when storing a record of the batch raises, or the commit that
\* ends the batch raises, the store's contents are those before the call; when
\* neither raises, every record of the batch is visible.  Nothing of the batch is
\* visible while the call runs.
C2_BatchAtomicUnlessCommitRaises ==
    /\ (call.op = "store" /\ pc \in {"body", "commit", "except"}) => file = pre
    /\ StoreDone =>
          /\ BodyException(call) # "none" => raised.at = "body"
          /\ raised # NoException => file = pre
          /\ raised = NoException =>
                \A i \in 1..Len(CallRecords(call)) : Visible(CallRecords(call)[i], file)

\* the second record of a batch raised after the first had been stored
C2_Witness ==
    /\ StoreDone
    /\ Len(CallRecords(call)) = 2
    /\ StoreRaises(CallRecords(call)[1]) = "none"
    /\ StoreRaises(CallRecords(call)[2]) # "none"
    /\ ~Visible(CallRecords(call)[1], file)

\* the InChI keys of the conformers in the store
StoredKeys(f) ==
    {smiles_to_inchi_key(SmilesOf(f.qm[i].qcarchive_id)) : i \in 1..Len(f.qm)}
        \cup {smiles_to_inchi_key(SmilesOf(f.mm[i].qcarchive_id)) : i \in 1..Len(f.mm)}

\* C3: between calls, after any sequence of ingestion and store operations, the
\* store holds one molecule row per distinct structural key: get_smiles has no
\* duplicates, and len(store) is the number of distinct keys stored.
C3_OneMoleculePerKey ==
    LET smiles == get_smiles(file)
        keys   == StoredKeys(file)
        count  == __len__(file)
    IN  pc = "idle" =>
            /\ \A i, j \in 1..Len(file.molecules) :
                  file.molecules[i].inchi_key = file.molecules[j].inchi_key => i = j
            /\ \A i, j \in 1..Len(smiles) : smiles[i] = smiles[j] => i = j
            /\ count = Cardinality(keys)
            /\ count = Len(smiles)

\* conformers of two mapped SMILES of one molecule, and of another molecule, are
\* in the store
C3_Witness ==
    /\ \E i, j \in 1..Len(file.qm) : file.qm[i].qcarchive_id = 1 /\ file.qm[j].qcarchive_id = 2
    /\ Cardinality(StoredKeys(file)) = 2
    /\ pc = "idle"

\* the extension of the path is .sqlite in some case
SuffixIgnoringCase(parts) == Suffix(parts) \in {"sqlite", "SQLITE"}

ConstructDone == pc = "done" /\ call.op = "__init__"

\* C6 as claimed: opening a store on a path whose extension is not .sqlite, in any
\* case, fails with UnsupportedFiletypeError before an engine, a schema, a file or
\* a session is made.
C6_UnsupportedFiletype ==
    (ConstructDone /\ ~SuffixIgnoringCase(path)) =>
        /\ raised.name = "UnsupportedFiletypeError"
        /\ ~engine
        /\ file = pre
        /\ session = "never"

\* C6 (amended): it fails with NotImplementedError, before an engine, a schema, a
\* file or a session is made; a path with the extension does not fail so.
C6_NotImplementedError ==
    ConstructDone =>
        IF SuffixIgnoringCase(path)
        THEN raised.name # "NotImplementedError" /\ engine /\ file.schema
        ELSE /\ raised = Raise("call", "NotImplementedError")
             /\ ~engine
             /\ file = pre
             /\ session = "never"
             /\ obj = "failed"

\* the constructor was refused for foo.sqlite.bak, with no file at the path
C6_Witness ==
    /\ ConstructDone
    /\ path = <<"foo", "sqlite", "bak">>
    /\ raised.name = "NotImplementedError"
    /\ ~file.exists

\* C7: create-new ingestion against a destination that exists raises
\* DatabaseExistsError before any write and leaves the file as it was.
C7_DoNotOverwrite ==
    (call.op = "from_qcsubmit_collection" /\ pre.exists) =>
        /\ pc = "done"
        /\ raised = Raise("call", "DatabaseExistsError")
        /\ file = pre
        /\ commitCalls = 0

\* ingestion was refused over a store that holds conformers
C7_Witness ==
    /\ call.op = "from_qcsubmit_collection"
    /\ pc = "done"
    /\ pre.qm # <<>>
    /\ call.arg # <<>>

RECURSIVE StoreAll(_, _)
StoreAll(f, records) ==
    IF records = <<>> THEN f ELSE StoreAll(_store_single_molecule_record(f, Head(records)), Tail(records))

\* the store create-new ingestion of a collection leaves
Ingested(collection) == StoreAll(create_all(Absent), IngestRecords(collection))

IngestDone == pc = "done" /\ call.op = "from_qcsubmit_collection" /\ raised = NoException

\* C8: after create-new ingestion the source ids of every molecule id are strictly
\* ascending, and are the same list for every permutation of the collection.
C8_SortedByQCArchiveId ==
    IngestDone =>
        \A m \in get_molecule_ids(file) :
            LET ids == get_qcarchive_ids_by_molecule_id(file, m) IN
            /\ \A i \in 1..(Len(ids) - 1) : ids[i] < ids[i + 1]
            /\ \A c \in Collections :
                  {c[i] : i \in 1..Len(c)} = {call.arg[i] : i \in 1..Len(call.arg)} =>
                      get_qcarchive_ids_by_molecule_id(Ingested(c), m) = ids

\* a collection that was not in the order of its source ids was ingested, two of
\* its entries of one molecule
C8_Witness ==
    /\ IngestDone
    /\ \E i, j \in 1..Len(call.arg) : i < j /\ call.arg[i] > call.arg[j]
    /\ \E m \in get_molecule_ids(file) : Len(get_qcarchive_ids_by_molecule_id(file, m)) >= 2

\* C9, the QM half: the conformer fetched by the i-th source id of a molecule is
\* the i-th of the molecule's QM conformers
QMAccessorsAgree(f) ==
    \A m \in get_molecule_ids(f) :
        LET ids == get_qcarchive_ids_by_molecule_id(f, m) IN
        \A i \in 1..Len(ids) :
            get_qm_conformer_by_qcarchive_id(f, ids[i]) = get_qm_conformers_by_molecule_id(f, m)[i]

C13_UniqueConformerKeys ==
    /\ \A i, j \in 1..Len(file.qm) :
          file.qm[i].qcarchive_id = file.qm[j].qcarchive_id => i = j
    /\ \A i, j \in 1..Len(file.mm) :
          (/\ file.mm[i].qcarchive_id = file.mm[j].qcarchive_id
           /\ file.mm[i].force_field = file.mm[j].force_field) => i = j

\* a record the store held was stored again, with another: the call was refused at
\* its commit and left the store as it was
C13_Witness ==
    /\ StoreDone
    /\ raised = Raise("commit", "IntegrityError")
    /\ Len(CallRecords(call)) = 2
    /\ Visible(CallRecords(call)[2], pre)
    /\ ~Visible(CallRecords(call)[1], pre)
    /\ file = pre

\* C15: every conformer record the store accepted has a coordinate array of shape
\* (n_atoms, 3), n_atoms the number of atoms of the mapped structure of its
\* molecule, validation having rejected the arrays of any other number of
\* elements.
C15_CoordinateShape ==
    pc = "idle" =>
        /\ \A i \in 1..Len(file.qm) :
              file.qm[i].shape =
                  <<AtomCount(file.molecules[file.qm[i].parent_id].mapped_smiles), 3>>
        /\ \A i \in 1..Len(file.mm) :
              file.mm[i].shape =
                  <<AtomCount(file.molecules[file.mm[i].parent_id].mapped_smiles), 3>>

(***************************************************************************)
(* Properties of _minimize_blob (checked under MinimizeSpec)               *)
(***************************************************************************)
\* the submission indices of a key's items, ascending
SubmissionOrder(k) ==
    SelectSeq([i \in 1..Len(inputs) |-> i], LAMBDA i : inputs[i].inchi_key = k)

\* the results of a key's items, in the order of their submission index
ResultsInSubmissionOrder(k) ==
    [j \in 1..Len(SubmissionOrder(k)) |-> _run_openmm(inputs[SubmissionOrder(k)[j]]).result]

FailedItems == {i \in 1..Len(inputs) : ~_run_openmm(inputs[i]).ok}

\* C4: whatever order the workers complete in, the mapping _minimize_blob returns
\* holds, for each structural key, the results of that key's items in the order of
\* their submission index: it is a function of the inputs alone.
C4_ReturnedInSubmissionOrder ==
    mpc = "returned" =>
        /\ DOMAIN returned = {inputs[i].inchi_key : i \in 1..Len(inputs)}
        /\ \A k \in DOMAIN returned : returned[k] = ResultsInSubmissionOrder(k)

\* a batch over two keys was returned, one key with several results, after a
\* worker had completed a later item before an earlier one
C4_Witness ==
    /\ mpc = "returned"
    /\ outOfOrder
    /\ Cardinality(DOMAIN returned) = 2
    /\ \E k \in DOMAIN returned : Len(returned[k]) >= 2

\* C5 as claimed: a failing work item aborts only itself; the batch is not
\* aborted, and once the call is over every result computed for another item is
\* in the mapping the caller receives.
C5_FailureIsolatedToItem ==
    (\E i \in DOMAIN results : ~results[i].ok) =>
        /\ mpc # "raised"
        /\ mpc = "returned" =>
              \A j \in DOMAIN results :
                 results[j].ok =>
                    \E n \in 1..Len(returned[inputs[j].inchi_key]) :
                        returned[inputs[j].inchi_key][n] = results[j].result

\* C5 (amended): a failing item is fatal for the batch.  The workers keep running
\* until the loop reaches the first failing item in submission order; then that
\* item's exception leaves _minimize_blob, the pool is terminated and no mapping
\* is returned.  A mapping is returned only when no item failed.
C5_FailureAbortsBatch ==
    /\ mpc = "returned" => FailedItems = {}
    /\ mpc = "raised" =>
          /\ FailedItems # {}
          /\ LET first == CHOOSE i \in FailedItems : \A j \in FailedItems : i <= j IN
                /\ error = _run_openmm(inputs[first]).exc
                /\ yielded = 1..first
          /\ running = {}
          /\ returned = <<>>
    /\ mpc = "pool" => \A i \in yielded : results[i].ok

\* the batch was aborted although a worker had already computed the result of an
\* item submitted after the failing one
C5_Witness ==
    /\ mpc = "raised"
    /\ \E j \in DOMAIN results : results[j].ok /\ j \notin yielded
    /\ \E j \in yielded : results[j].ok

\* C10: the worker resolves a force-field identifier as an existing path first,
\* then as a plugin-registered name, then as a bundled mainline name; a path
\* identifier and a plugin name resolve, and a mainline name resolves when the
\* plugin registry is empty.
C10_ResolutionOrder ==
    \A i \in DOMAIN results :
        (/\ inputs[i].mapped_smiles \in ParsableSmiles
         /\ smiles_to_inchi_key(inputs[i].mapped_smiles) = inputs[i].inchi_key) =>
            LET ff == inputs[i].force_field IN
            CASE ff \in localFiles          -> results[i].ok /\ results[i].source = "path"
              [] ff \in pluginPaths         -> results[i].ok /\ results[i].source = "plugin"
              [] ff \in DOMAIN FORCE_FIELDS -> results[i].ok /\ results[i].source = "mainline"
              [] OTHER                      -> TRUE

(***************************************************************************)
(* Properties of the worker process (checked under WorkerSpec)             *)
(***************************************************************************)
\* two inputs agree in structural key, mapped structure, starting coordinates and
\* force field
SameArguments(a, b) ==
    /\ a.inchi_key = b.inchi_key
    /\ a.mapped_smiles = b.mapped_smiles
    /\ a.coordinates = b.coordinates
    /\ a.force_field = b.force_field

C12_LoadedAtMostOnce ==
    /\ [](\A id \in ParsedIds : parses[id] <= 1)
    /\ [][\A id \in DOMAIN loaded : id \in DOMAIN loaded' /\ loaded'[id] = loaded[id]]_vars

\* one identifier was resolved by three calls after the one parse of its definition
C12_Witness ==
    /\ Len(calls) = 3
    /\ \A i \in 1..3 : calls[i].input.force_field = "openff-2.1.0" /\ calls[i].outcome.ok
    /\ parses["openff-2.1.0"] = 1

(***************************************************************************)
(* Properties of _minimize_blob on any batch (checked under PoolSpec)      *)
(***************************************************************************)
\* the rows of the grouped input: group, position in the group
InputRows == UNION {{<<g, r>> : r \in 1..Len(input[g].rows)} : g \in 1..Len(input)}

\* the results of the returned mapping: key, position in the key's list
ReturnedResults == UNION {{<<k, n>> : n \in 1..Len(returned[k])} : k \in DOMAIN returned}

\* C14: when every worker succeeded, each row of the grouped input has exactly
\* one result in the returned mapping, with the row's structural key, source id,
\* mapped structure and force field, in the list of its structural key, and the
\* mapping holds as many results as the input has rows, also for more rows than
\* the pool has processes.
C14_NoWorkLostOrDuplicated ==
    (mpc = "returned" /\ FailedItems = {}) =>
        /\ \A p \in InputRows :
              LET key  == input[p[1]].inchi_key
                  row  == input[p[1]].rows[p[2]]
                  mine == {q \in ReturnedResults :
                             /\ returned[q[1]][q[2]].inchi_key = key
                             /\ returned[q[1]][q[2]].qcarchive_id = row.qcarchive_id}
              IN  /\ Cardinality(mine) = 1
                  /\ \A q \in mine :
                        /\ q[1] = key
                        /\ returned[q[1]][q[2]].mapped_smiles = row.mapped_smiles
                        /\ returned[q[1]][q[2]].force_field = force_field
        /\ Cardinality(ReturnedResults) = Cardinality(InputRows)

\* a batch of more rows than the pool has processes, under two keys, was returned
\* after its workers had finished out of order
C14_Witness ==
    /\ mpc = "returned"
    /\ Cardinality(InputRows) > N_PROCESSES
    /\ Len(input) = 2
    /\ outOfOrder

====
